---- MODULE Spec2Model ----
(***************************************************************************)
(* Real-time voting of the polls backend: the WebSocket handlers of        *)
(* resources/votes.mjs (connectHandler, disconnectHandler,                 *)
(* messagesHandler) over the two DynamoDB tables Polls and Connections.    *)
(*                                                                         *)
(* Every invocation of messagesHandler is a process that runs the          *)
(* handler's store calls one at a time; a step of the model is one awaited *)
(* store call together with the code that follows it up to the next store  *)
(* call.  Invocations interleave freely at the store calls (one Lambda     *)
(* invocation per message, no lock).  The sends of a broadcast touch no    *)
(* table, so they are taken together with the Scan that precedes them;     *)
(* what each send did is visible in posted during that step.  An           *)
(* invocation of connectHandler or disconnectHandler is the arrival of its *)
(* event followed by its one store call.                                   *)
(*                                                                         *)
(* The tables are sets of items; the store's operations (Get, Put,         *)
(* Update, Query, Scan) are operators over such sets.  Reads are modelled  *)
(* as consistent reads of the table.                                       *)
(***************************************************************************)
EXTENDS Integers, FiniteSets, Sequences, TLC

\* ---------------------------------------------------------------- bounds

\* number of vote messages handled in one behaviour
MaxVotes == 2

Msgs == 1..MaxVotes

\* largest number of options of a poll (createPollHandler sets no limit)
MaxOptions == 10

\* ---------------------------------------------------------------- universe

\* emails of the registered voters (Connection.user.email)
Users == {"alice", "bob"}

\* connection ids issued by the transport; c1, c2 hold a Connection record
RegisteredConns == {"c1", "c2"}
\* a connection id without a Connection record
UnknownConns == {"c3"}
ConnIds == RegisteredConns \cup UnknownConns

\* the one poll of the model and its options, OPTION#1 .. OPTION#2
PollId == "p1"
\* a pollId no poll was created with
UnknownPollIds == {"p2"}
PollIds == {PollId} \cup UnknownPollIds
OptionIds == {1, 2}
\* an optionId that is no option of the poll (Scenario D's 99)
BadOptionIds == {99}

NoItem == [none |-> TRUE]

VARIABLES
  pollsTable,        \* items of POLLS_TABLE
  connectionsTable,  \* items of CONNECTIONS_TABLE
  pc,                \* per invocation: the store call it is about to make
  event,             \* per invocation: connectionId, pollId, optionId
  userId,            \* per invocation: conn.Item.user.email
  createdAt,         \* per invocation: new Date() taken after step 1
  previousVote,      \* per invocation: previousVote.Item
  options,           \* per invocation: the tally read in step 6
  statusCode,        \* per invocation: the returned statusCode (0: none yet)
  clock,             \* the wall clock read by new Date()
  posted,            \* the PostToConnection calls of the step just taken
  before,            \* pollsTable when the latest message arrived alone
  connect,           \* per connection id: the connectHandler invocation
  disconnect,        \* per connection id: the disconnectHandler invocation
  deletePoll         \* the deletePollHandler invocation of the poll's owner

vars == <<pollsTable, connectionsTable, pc, event, userId, createdAt,
          previousVote, options, statusCode, clock, posted, before,
          connect, disconnect,
                 deletePoll>>

\* ---------------------------------------------------------------- items

\* `${n}`: the decimal digits of a number, as the string of a key holds them
RECURSIVE Decimal(_)
Decimal(n) ==
  IF n < 10 THEN <<n>> ELSE Append(Decimal(n \div 10), n % 10)

\* Number(str) of a string of decimal digits
RECURSIVE Number(_)
Number(str) ==
  IF Len(str) = 0 THEN 0
  ELSE 10 * Number(SubSeq(str, 1, Len(str) - 1)) + str[Len(str)]

\* the store's order of string sort keys (by the bytes of the string): the
\* digits are compared from the left, and a proper prefix comes first
RECURSIVE StrLess(_, _)
StrLess(a, b) ==
  IF Len(a) = 0 THEN Len(b) > 0
  ELSE IF Len(b) = 0 THEN FALSE
  ELSE IF Head(a) # Head(b) THEN Head(a) < Head(b)
  ELSE StrLess(Tail(a), Tail(b))

PollPK(pollId) == <<"POLL", pollId>>
PollSK == <<"POLL", "">>
OptionSK(optionId) == <<"OPTION", Decimal(optionId)>>
\* a variant of VoteSK without the user id in the key
VoteSKShared(user) == <<"VOTE", "">>

VoteSK(user) == <<"VOTE", user>>

OptionItem(pollId, optionId, n) ==
  [PK |-> PollPK(pollId), SK |-> OptionSK(optionId),
   optionId |-> optionId, votesCount |-> n]

VoteItem(pollId, user, optionId, at) ==
  [PK |-> PollPK(pollId), SK |-> VoteSK(user),
   optionId |-> optionId, user |-> user, createdAt |-> at]

\* the poll's own item (question, owner, createdAt are not modelled)
PollItem(pollId) == [PK |-> PollPK(pollId), SK |-> PollSK]

ConnectionItem(connectionId, user) == [PK |-> connectionId, user |-> user]

\* ---------------------------------------------------------------- the store

\* GetCommand: the item with that key, or no Item
GetItem(table, pk, sk) ==
  IF \E i \in table : i.PK = pk /\ i.SK = sk
    THEN CHOOSE i \in table : i.PK = pk /\ i.SK = sk
    ELSE NoItem

\* PutCommand: the item replaces the one with its key, if any
PutItem(table, item) ==
  {i \in table : ~(i.PK = item.PK /\ i.SK = item.SK)} \cup {item}

\* UpdateCommand "SET votesCount = votesCount + d" is rejected when the item
\* (hence the attribute the expression reads) does not exist
CanUpdate(table, pk, sk) == GetItem(table, pk, sk) # NoItem

UpdateVotesCount(table, pk, sk, d) ==
  LET old == GetItem(table, pk, sk)
  IN  PutItem(table, [old EXCEPT !.votesCount = @ + d])

\* QueryCommand PK = :pk AND begins_with(SK, "OPTION#")
QueryOptions(table, pk) ==
  {i \in table : i.PK = pk /\ i.SK[1] = "OPTION"}

\* the Items of a Query come in the order of their sort keys
RECURSIVE SortBySK(_)
SortBySK(items) ==
  IF items = {} THEN <<>>
  ELSE LET first == CHOOSE i \in items :
                      \A j \in items \ {i} : StrLess(i.SK[2], j.SK[2])
       IN  <<first>> \o SortBySK(items \ {first})

\* a variant of GetConnection that does not read by key: it returns a record
\* of the table whatever the connection id
GetAnyConnection(table, connectionId) ==
  IF table # {} THEN CHOOSE i \in table : TRUE ELSE NoItem

\* GetCommand on CONNECTIONS_TABLE
GetConnection(table, connectionId) ==
  IF \E i \in table : i.PK = connectionId
    THEN CHOOSE i \in table : i.PK = connectionId
    ELSE NoItem

\* a variant of PutConnection that adds the item next to the ones of the
\* table
PutConnectionAppended(table, item) == table \cup {item}

\* PutCommand on CONNECTIONS_TABLE: the item replaces the one with its PK
PutConnection(table, item) == {i \in table : i.PK # item.PK} \cup {item}

\* a variant of CanDelete for a Delete with the condition attribute_exists(PK)
CanDeleteExisting(table, connectionId) == \E i \in table : i.PK = connectionId

\* DeleteCommand on CONNECTIONS_TABLE has no condition: it succeeds whether
\* or not an item with the key exists
CanDelete(table, connectionId) == TRUE

DeleteConnection(table, connectionId) == {i \in table : i.PK # connectionId}

\* ScanCommand on CONNECTIONS_TABLE, mapped to the connection ids
ScanConnections(table) == {i.PK : i \in table}

\* ---------------------------------------------------------------- initial state

\* createPollHandler's items: the poll and its options, every option with
\* votesCount 0
InitPollsTable ==
  {PollItem(PollId)} \cup {OptionItem(PollId, o, 0) : o \in OptionIds}

\* c1 is alice's connection, c2 is bob's
InitConnectionsTable ==
  {ConnectionItem("c1", "alice"), ConnectionItem("c2", "bob")}

\* the connect events of c1 and c2 have been handled (their records are
\* stored); no disconnect event has arrived
InitConnect ==
  [c \in ConnIds |->
     IF c \in RegisteredConns
       THEN [pc |-> "done", user |-> "", statusCode |-> 200]
       ELSE [pc |-> "idle", user |-> "", statusCode |-> 0]]

InitDisconnect == [c \in ConnIds |-> [pc |-> "idle", statusCode |-> 0]]

NoEvent == [connectionId |-> "", pollId |-> "", optionId |-> 0]

\* the poll as it is after alice's vote for option 1 was handled, alone, at
\* time 0: the counter of option 1 incremented and her Vote record put
VotedPollsTable ==
  PutItem(UpdateVotesCount(InitPollsTable, PollPK(PollId), OptionSK(1), 1),
          VoteItem(PollId, "alice", 1, 0))

\* the handlers' state when the tables hold polls
InitWith(polls) ==
  /\ pollsTable \in polls
  /\ connectionsTable = InitConnectionsTable
  /\ pc = [m \in Msgs |-> "idle"]
  /\ event = [m \in Msgs |-> NoEvent]
  /\ userId = [m \in Msgs |-> ""]
  /\ createdAt = [m \in Msgs |-> 0]
  /\ previousVote = [m \in Msgs |-> NoItem]
  /\ options = [m \in Msgs |-> <<>>]
  /\ statusCode = [m \in Msgs |-> 0]
  /\ clock = 1
  /\ posted = {}
  /\ before = {}
  /\ connect = InitConnect
  /\ disconnect = InitDisconnect
  /\ deletePoll = [pc |-> "idle", items |-> {}, statusCode |-> 0]

\* the messages of a behaviour arrive at a new poll, or at a poll alice has
\* voted on
Init == InitWith({InitPollsTable, VotedPollsTable})

\* createPollHandler's items for a poll of n options
PollOfSize(n) ==
  {PollItem(PollId)} \cup {OptionItem(PollId, o, 0) : o \in 1..n}

\* the messages arrive at a new poll of any number of options
InitTally == InitWith({PollOfSize(n) : n \in 1..MaxOptions})

\* ---------------------------------------------------------------- messagesHandler

InFlight(m) == pc[m] \notin {"idle", "done"}

\* the invocation returns: its locals go out of scope
Finish(m, code) ==
  /\ pc' = [pc EXCEPT ![m] = "done"]
  /\ statusCode' = [statusCode EXCEPT ![m] = code]
  /\ createdAt' = [createdAt EXCEPT ![m] = 0]
  /\ previousVote' = [previousVote EXCEPT ![m] = NoItem]
  /\ options' = [options EXCEPT ![m] = <<>>]

\* a variant of Throw for a call outside the try block: the exception leaves
\* the handler, which returns no status
ThrowEscapes(m) ==
  /\ pc' = [pc EXCEPT ![m] = "crashed"]
  /\ posted' = {}
  /\ UNCHANGED <<pollsTable, connectionsTable, event, userId, createdAt,
                 previousVote, options, statusCode, clock, before, connect,
                 disconnect,
                 deletePoll>>

\* catch (err): return { statusCode: 500, ... }; nothing is undone, nothing
\* is sent
Throw(m) ==
  /\ Finish(m, 500)
  /\ posted' = {}
  /\ UNCHANGED <<pollsTable, connectionsTable, event, userId, clock, before,
                 connect, disconnect,
                 deletePoll>>

\* 1: a message {pollId, optionId} arrives on connection c and the handler
\* reads the Connection record of c; its user is the voter.  Messages are
\* numbered in the order of this read (nothing of an invocation is visible
\* before it).
HasUser(conn) == conn # NoItem /\ conn.user # ""

GetConn(m, c, p, o) ==
  /\ pc[m] = "idle"
  /\ \A n \in Msgs : n < m => pc[n] # "idle"
  /\ event' = [event EXCEPT ![m] = [connectionId |-> c, pollId |-> p, optionId |-> o]]
  /\ posted' = {}
  /\ UNCHANGED <<connect, disconnect,
                 deletePoll>>
  /\ LET conn == GetConnection(connectionsTable, c)
     IN  IF ~HasUser(conn)
           THEN /\ Finish(m, 500)
                /\ UNCHANGED <<pollsTable, connectionsTable, userId, clock>>
           ELSE /\ userId' = [userId EXCEPT ![m] = conn.user]
                /\ createdAt' = [createdAt EXCEPT ![m] = clock]
                /\ clock' = clock + 1
                /\ pc' = [pc EXCEPT ![m] = "getPrev"]
                /\ UNCHANGED <<pollsTable, connectionsTable, previousVote,
                               options, statusCode>>

Receive(m, c, p, o) == GetConn(m, c, p, o) /\ UNCHANGED before

\* the message arrives while no other message of the user of connection c is
\* being handled
ReceiveSerialized(m, c, p, o) ==
  /\ \A n \in Msgs :
       InFlight(n) =>
         \A i \in connectionsTable : i.PK = c => i.user # userId[n]
  /\ Receive(m, c, p, o)

\* the message arrives while no other message is being handled
ReceiveAlone(m, c, p, o) ==
  /\ \A n \in Msgs : ~InFlight(n)
  /\ GetConn(m, c, p, o)
  /\ before' = pollsTable

\* 2: the user's Vote record of the poll, if any
GetPrev(m) ==
  /\ pc[m] = "getPrev"
  /\ LET prev == GetItem(pollsTable, PollPK(event[m].pollId), VoteSK(userId[m]))
     IN  /\ previousVote' = [previousVote EXCEPT ![m] = prev]
         /\ pc' = [pc EXCEPT ![m] = IF prev # NoItem THEN "dec" ELSE "inc"]
  /\ posted' = {}
  /\ UNCHANGED <<pollsTable, connectionsTable, event, userId, createdAt,
                 options, statusCode, clock, before, connect, disconnect,
                 deletePoll>>

\* a variant of DecrementPrevious that leaves the counter of the previous
\* option as it is
DecrementSkipped(table, m) == table

\* a variant of DecrementPrevious that decrements the option voted for
DecrementRequested(table, m) ==
  UpdateVotesCount(table, PollPK(event[m].pollId),
                   OptionSK(event[m].optionId), -1)

\* 3: votesCount - 1 on the option of the previous vote
DecrementPrevious(table, m) ==
  UpdateVotesCount(table, PollPK(event[m].pollId),
                   OptionSK(previousVote[m].optionId), -1)

Dec(m) ==
  /\ pc[m] = "dec"
  /\ IF ~CanUpdate(pollsTable, PollPK(event[m].pollId),
                   OptionSK(previousVote[m].optionId))
       THEN Throw(m)
       ELSE /\ pollsTable' = DecrementPrevious(pollsTable, m)
            /\ pc' = [pc EXCEPT ![m] = "inc"]
            /\ posted' = {}
            /\ UNCHANGED <<connectionsTable, event, userId, createdAt,
                           previousVote, options, statusCode, clock, before,
                           connect, disconnect,
                 deletePoll>>

\* a variant of IncrementNew that increments the option of the previous vote
\* when there is one
IncrementStale(table, m) ==
  UpdateVotesCount(table, PollPK(event[m].pollId),
                   OptionSK(IF previousVote[m] # NoItem
                              THEN previousVote[m].optionId
                              ELSE event[m].optionId), 1)

\* 4: votesCount + 1 on the option voted for
IncrementNew(table, m) ==
  UpdateVotesCount(table, PollPK(event[m].pollId),
                   OptionSK(event[m].optionId), 1)

\* a variant of Inc whose update is "ADD votesCount :inc", which creates the
\* item with the counter when the key holds none
IncUpsert(m) ==
  /\ pc[m] = "inc"
  /\ pollsTable' =
       IF CanUpdate(pollsTable, PollPK(event[m].pollId),
                    OptionSK(event[m].optionId))
         THEN IncrementNew(pollsTable, m)
         ELSE PutItem(pollsTable,
                      OptionItem(event[m].pollId, event[m].optionId, 1))
  /\ pc' = [pc EXCEPT ![m] = "put"]
  /\ posted' = {}
  /\ UNCHANGED <<connectionsTable, event, userId, createdAt, previousVote,
                 options, statusCode, clock, before, connect, disconnect,
                 deletePoll>>

Inc(m) ==
  /\ pc[m] = "inc"
  /\ IF ~CanUpdate(pollsTable, PollPK(event[m].pollId),
                   OptionSK(event[m].optionId))
       THEN Throw(m)
       ELSE /\ pollsTable' = IncrementNew(pollsTable, m)
            /\ pc' = [pc EXCEPT ![m] = "put"]
            /\ posted' = {}
            /\ UNCHANGED <<connectionsTable, event, userId, createdAt,
                           previousVote, options, statusCode, clock, before,
                           connect, disconnect,
                 deletePoll>>

\* a variant of PersistVote that adds the Vote record next to the ones of the
\* table instead of replacing the one with its key
PersistVoteAppended(table, m) ==
  table \cup {VoteItem(event[m].pollId, userId[m], event[m].optionId,
                       createdAt[m])}

\* 5: the user's Vote record, keyed POLL#pollId / VOTE#userId
PersistVote(table, m) ==
  PutItem(table, VoteItem(event[m].pollId, userId[m], event[m].optionId,
                          createdAt[m]))

Put(m) ==
  /\ pc[m] = "put"
  /\ pollsTable' = PersistVote(pollsTable, m)
  /\ pc' = [pc EXCEPT ![m] = "query"]
  /\ posted' = {}
  /\ UNCHANGED <<connectionsTable, event, userId, createdAt, previousVote,
                 options, statusCode, clock, before, connect, disconnect,
                 deletePoll>>

\* 6: the poll's options in the order of the Query, each mapped to
\* {id, votesCount} (text, which no step changes, is left out)
Tally(table, pollId) ==
  LET items == SortBySK(QueryOptions(table, PollPK(pollId)))
  IN  [k \in 1..Len(items) |->
         [id |-> Number(items[k].SK[2]), votesCount |-> items[k].votesCount]]

\* a variant of Query that returns 200 once the vote is persisted, without
\* building the tally and broadcasting it
QueryThenReturn(m) ==
  /\ pc[m] = "query"
  /\ Finish(m, 200)
  /\ posted' = {}
  /\ UNCHANGED <<pollsTable, connectionsTable, event, userId, clock, before,
                 connect, disconnect,
                 deletePoll>>

Query(m) ==
  /\ pc[m] = "query"
  /\ options' = [options EXCEPT ![m] = Tally(pollsTable, event[m].pollId)]
  /\ pc' = [pc EXCEPT ![m] = "scan"]
  /\ posted' = {}
  /\ UNCHANGED <<pollsTable, connectionsTable, event, userId, createdAt,
                 previousVote, statusCode, clock, before, connect, disconnect,
                 deletePoll>>

\* a variant of Payload stamped with the time of the broadcast (a second
\* new Date() at step 7)
PayloadStampedAtSend(m) ==
  [pollId |-> event[m].pollId, options |-> options[m], user |-> userId[m],
   createdAt |-> clock]

\* the Data of the PostToConnection calls of invocation m
Payload(m) ==
  [pollId |-> event[m].pollId, options |-> options[m], user |-> userId[m],
   createdAt |-> createdAt[m]]

\* a variant of Sends in which a failed send rejects the whole broadcast (no
\* catch in the callback): only the failed sends settle
SendsUntilFailure(m, snapshot, gone) ==
  {[ConnectionId |-> c, Data |-> Payload(m),
    settled |-> IF c \in gone THEN "failed" ELSE "delivered"] :
     c \in IF gone = {} THEN snapshot ELSE gone}

\* one PostToConnection per connection of the snapshot; the send to c throws
\* when c is in gone (stale or closed connection), which its own callback
\* catches and logs
Sends(m, snapshot, gone) ==
  {[ConnectionId |-> c, Data |-> Payload(m),
    settled |-> IF c \in gone THEN "failed" ELSE "delivered"] : c \in snapshot}

\* a variant of BroadcastStatus in which a failed send reaches the handler's
\* catch block
BroadcastStatusStrict(sends) ==
  IF \E s \in sends : s.settled = "failed" THEN 500 ELSE 200

\* Promise.allSettled over the callbacks: every callback fulfils, whatever its
\* send did, and the handler returns 200
BroadcastStatus(sends) == 200

\* what the awaited Promise.allSettled resolves to: one outcome per callback,
\* each fulfilled without a value, since the callback catches the error of
\* its send
AllSettled(sends) ==
  {[ConnectionId |-> s.ConnectionId, status |-> "fulfilled"] : s \in sends}

\* 7: the snapshot of all connections, the sends to it, and the return
Broadcast(m, gone) ==
  /\ pc[m] = "scan"
  /\ LET snapshot == ScanConnections(connectionsTable)
         sends == Sends(m, snapshot, gone \cap snapshot)
     IN  /\ posted' = sends
         /\ Finish(m, BroadcastStatus(sends))
  /\ UNCHANGED <<pollsTable, connectionsTable, event, userId, clock, before,
                 connect, disconnect,
                 deletePoll>>

\* a DynamoDB call of the handler rejects (store unavailable): the catch
\* block returns 500
StoreCalls == {"getPrev", "dec", "inc", "put", "query", "scan"}

StoreFail(m) ==
  /\ pc[m] \in StoreCalls
  /\ Throw(m)

\* the read of the Connection record (step 1) rejects
GetConnFail(m, c, p, o) ==
  /\ pc[m] = "idle"
  /\ \A n \in Msgs : n < m => pc[n] # "idle"
  /\ \A n \in Msgs : ~InFlight(n)
  /\ event' = [event EXCEPT ![m] = [connectionId |-> c, pollId |-> p, optionId |-> o]]
  /\ Finish(m, 500)
  /\ posted' = {}
  /\ before' = pollsTable
  /\ UNCHANGED <<pollsTable, connectionsTable, userId, clock, connect,
                 disconnect,
                 deletePoll>>

\* the body of the message is no JSON text of an object (JSON.parse or the
\* destructuring throws): the catch block returns 500 before any store call
ReceiveMalformed(m, c) ==
  /\ pc[m] = "idle"
  /\ \A n \in Msgs : n < m => pc[n] # "idle"
  /\ \A n \in Msgs : ~InFlight(n)
  /\ event' = [event EXCEPT ![m] = [connectionId |-> c, pollId |-> "", optionId |-> 0]]
  /\ Finish(m, 500)
  /\ posted' = {}
  /\ before' = pollsTable
  /\ UNCHANGED <<pollsTable, connectionsTable, userId, clock, connect,
                 disconnect,
                 deletePoll>>

\* ---------------------------------------------------------------- connectHandler

\* the state of the message invocations
messageVars == <<pc, event, userId, createdAt, previousVote, options,
                 statusCode, clock, before>>

Returned(code) == [pc |-> "done", user |-> "", statusCode |-> code]

\* the $connect event of connection c arrives with the authorizer's context
\* of user u.  The transport issues no $connect for an id after the
\* $disconnect of that id.
ConnectStart(c, u) ==
  /\ connect[c].pc \in {"idle", "done"}
  /\ disconnect[c].pc = "idle"
  /\ connect' = [connect EXCEPT ![c] = [pc |-> "put", user |-> u, statusCode |-> 0]]
  /\ posted' = {}
  /\ UNCHANGED <<pollsTable, connectionsTable, messageVars, disconnect,
                 deletePoll>>

\* the Put of the Connection record, then return 200
ConnectPut(c) ==
  /\ connect[c].pc = "put"
  /\ connectionsTable' =
       PutConnection(connectionsTable, ConnectionItem(c, connect[c].user))
  /\ connect' = [connect EXCEPT ![c] = Returned(200)]
  /\ posted' = {}
  /\ UNCHANGED <<pollsTable, messageVars, disconnect,
                 deletePoll>>

\* the Put rejects: catch (err) returns 500
ConnectFail(c) ==
  /\ connect[c].pc = "put"
  /\ connect' = [connect EXCEPT ![c] = Returned(500)]
  /\ posted' = {}
  /\ UNCHANGED <<pollsTable, connectionsTable, messageVars, disconnect,
                 deletePoll>>

\* ---------------------------------------------------------------- disconnectHandler

\* the $disconnect event of connection c arrives (the transport may deliver
\* it again)
DisconnectStart(c) ==
  /\ disconnect[c].pc \in {"idle", "done"}
  /\ disconnect' = [disconnect EXCEPT ![c] = [pc |-> "delete", statusCode |-> 0]]
  /\ posted' = {}
  /\ UNCHANGED <<pollsTable, connectionsTable, messageVars, connect,
                 deletePoll>>

\* the Delete of the Connection record, then return 200
DisconnectDelete(c) ==
  /\ disconnect[c].pc = "delete"
  /\ IF CanDelete(connectionsTable, c)
       THEN /\ connectionsTable' = DeleteConnection(connectionsTable, c)
            /\ disconnect' = [disconnect EXCEPT ![c] = [pc |-> "done", statusCode |-> 200]]
       ELSE /\ connectionsTable' = connectionsTable
            /\ disconnect' = [disconnect EXCEPT ![c] = [pc |-> "done", statusCode |-> 500]]
  /\ posted' = {}
  /\ UNCHANGED <<pollsTable, messageVars, connect,
                 deletePoll>>

\* the Delete rejects (store unavailable): catch (err) returns 500
DisconnectFail(c) ==
  /\ disconnect[c].pc = "delete"
  /\ disconnect' = [disconnect EXCEPT ![c] = [pc |-> "done", statusCode |-> 500]]
  /\ posted' = {}
  /\ UNCHANGED <<pollsTable, connectionsTable, messageVars, connect,
                 deletePoll>>

\* ---------------------------------------------------------------- deletePollHandler

handlerVars == <<connectionsTable, messageVars, connect, disconnect>>

\* 1, 2: the owner asks to delete the poll; the handler reads the poll item
\* (404 when there is none; the caller is the owner, so no 403)
DeleteGetPoll ==
  /\ deletePoll.pc = "idle"
  /\ deletePoll' =
       IF GetItem(pollsTable, PollPK(PollId), PollSK) = NoItem
         THEN [pc |-> "done", items |-> {}, statusCode |-> 404]
         ELSE [deletePoll EXCEPT !.pc = "query"]
  /\ posted' = {}
  /\ UNCHANGED <<pollsTable, handlerVars>>

\* 3: the Query of every item of the poll's partition
DeleteQuery ==
  /\ deletePoll.pc = "query"
  /\ LET found == {i \in pollsTable : i.PK = PollPK(PollId)}
     IN  deletePoll' =
           IF found = {}
             THEN [pc |-> "done", items |-> {}, statusCode |-> 404]
             ELSE [pc |-> "batch", items |-> found, statusCode |-> 0]
  /\ posted' = {}
  /\ UNCHANGED <<pollsTable, handlerVars>>

\* 4: the BatchWrite of a DeleteRequest for the key of every item found (one
\* call for up to 25 items), then return 200
DeleteBatch ==
  /\ deletePoll.pc = "batch"
  /\ pollsTable' =
       {i \in pollsTable :
          ~\E k \in deletePoll.items : k.PK = i.PK /\ k.SK = i.SK}
  /\ deletePoll' = [pc |-> "done", items |-> {}, statusCode |-> 200]
  /\ posted' = {}
  /\ UNCHANGED handlerVars

\* ---------------------------------------------------------------- specifications

\* the store calls 2 to 6 of an invocation
Step(m) ==
  \/ GetPrev(m)
  \/ Dec(m)
  \/ Inc(m)
  \/ Put(m)
  \/ Query(m)

\* votes of registered users for options of the poll, handled concurrently;
\* no store call and no send fails
Next ==
  \/ \E m \in Msgs, c \in RegisteredConns, o \in OptionIds :
       Receive(m, c, PollId, o)
  \/ \E m \in Msgs : Step(m)
  \/ \E m \in Msgs : Broadcast(m, {})

Spec == Init /\ [][Next]_vars

\* votes of registered users for options of the poll; the messages of
\* different users are handled concurrently, those of one user one at a
\* time; no store call and no send fails
NextUsers ==
  \/ \E m \in Msgs, c \in RegisteredConns, o \in OptionIds :
       ReceiveSerialized(m, c, PollId, o)
  \/ \E m \in Msgs : Step(m)
  \/ \E m \in Msgs : Broadcast(m, {})

SpecUsers == Init /\ [][NextUsers]_vars

\* votes of registered users for options of the poll, handled concurrently
\* with each other and with the owner's deletion of the poll; nothing fails
NextDelete ==
  \/ \E m \in Msgs, c \in RegisteredConns, o \in OptionIds :
       Receive(m, c, PollId, o)
  \/ \E m \in Msgs : Step(m)
  \/ \E m \in Msgs : Broadcast(m, {})
  \/ DeleteGetPoll
  \/ DeleteQuery
  \/ DeleteBatch

SpecDelete == Init /\ [][NextDelete]_vars

\* one message at a time, from registered users for options of the poll;
\* any store call may fail
NextFail ==
  \/ \E m \in Msgs, c \in RegisteredConns, o \in OptionIds :
       ReceiveAlone(m, c, PollId, o)
  \/ \E m \in Msgs, c \in RegisteredConns, o \in OptionIds :
       GetConnFail(m, c, PollId, o)
  \/ \E m \in Msgs : Step(m)
  \/ \E m \in Msgs : Broadcast(m, {})
  \/ \E m \in Msgs : StoreFail(m)

SpecFail == Init /\ [][NextFail]_vars

\* one message at a time, with any connection id, any pollId and any
\* optionId in the message; sends may fail
NextSeq ==
  \/ \E m \in Msgs, c \in ConnIds, p \in PollIds,
          o \in OptionIds \cup BadOptionIds :
       ReceiveAlone(m, c, p, o)
  \/ \E m \in Msgs : Step(m)
  \/ \E m \in Msgs, gone \in SUBSET ConnIds : Broadcast(m, gone)

SpecSeq == Init /\ [][NextSeq]_vars

\* one message at a time from a registered user, for a poll of any number of
\* options and any option number up to the largest; nothing fails
NextTally ==
  \/ \E m \in Msgs, o \in 1..MaxOptions :
       ReceiveAlone(m, "c1", PollId, o)
  \/ \E m \in Msgs : Step(m)
  \/ \E m \in Msgs : Broadcast(m, {})

SpecTally == InitTally /\ [][NextTally]_vars

\* the next step of invocation m, whether its store call succeeds or fails
Continue(m) ==
  \/ Step(m)
  \/ \E gone \in SUBSET ConnIds : Broadcast(m, gone)
  \/ StoreFail(m)

\* one message at a time, from registered users for options of the poll; any
\* store call and any send may fail.  An invocation that has started runs on
\* to its return (the runtime does not suspend an invocation for ever).
NextLive ==
  \/ \E m \in Msgs, c \in RegisteredConns, o \in OptionIds :
       ReceiveAlone(m, c, PollId, o)
  \/ \E m \in Msgs, c \in RegisteredConns, o \in OptionIds :
       GetConnFail(m, c, PollId, o)
  \/ \E m \in Msgs : Continue(m)

SpecLive ==
  Init /\ [][NextLive]_vars /\ \A m \in Msgs : WF_vars(Continue(m))

\* the store call of a connect or disconnect invocation, succeeding or failing
ConnectContinue(c) == ConnectPut(c) \/ ConnectFail(c)
DisconnectContinue(c) == DisconnectDelete(c) \/ DisconnectFail(c)

\* the inputs of the messages of NextAll: a registered and an unknown
\* connection, the poll and an unknown poll, an option and a number that is
\* no option
SomeConns == {"c1"} \cup UnknownConns
SomeOptionIds == {1} \cup BadOptionIds

NoMessage == \A m \in Msgs : pc[m] = "idle"
NoLifecycle == connect = InitConnect /\ disconnect = InitDisconnect

\* the three handlers, any store call and any send of which may fail: either
\* messages, one at a time, with any of the inputs above or a malformed
\* body, or the connect and disconnect events of a new connection.  (The
\* handlers share no state but the Connections table; the two kinds of event
\* are not mixed in one behaviour.)  Every invocation that has started runs
\* on to its return.
NextAll ==
  \/ \E m \in Msgs, c \in SomeConns, p \in PollIds, o \in SomeOptionIds :
       NoLifecycle /\ ReceiveAlone(m, c, p, o)
  \/ \E m \in Msgs, c \in SomeConns : NoLifecycle /\ ReceiveMalformed(m, c)
  \/ \E m \in Msgs, c \in SomeConns : NoLifecycle /\ GetConnFail(m, c, PollId, 1)
  \/ \E m \in Msgs : Continue(m)
  \/ \E c \in UnknownConns, u \in Users : NoMessage /\ ConnectStart(c, u)
  \/ \E c \in UnknownConns : ConnectContinue(c)
  \/ \E c \in UnknownConns : NoMessage /\ DisconnectStart(c)
  \/ \E c \in UnknownConns : DisconnectContinue(c)

SpecAll ==
  /\ Init /\ [][NextAll]_vars
  /\ \A m \in Msgs : WF_vars(Continue(m))
  /\ \A c \in UnknownConns : WF_vars(ConnectContinue(c))
  /\ \A c \in UnknownConns : WF_vars(DisconnectContinue(c))

\* the connect and disconnect events of the connections, handled
\* concurrently; no store call fails
NextConn ==
  \/ \E c \in ConnIds, u \in Users : ConnectStart(c, u)
  \/ \E c \in ConnIds : ConnectPut(c)
  \/ \E c \in ConnIds : DisconnectStart(c)
  \/ \E c \in ConnIds : DisconnectDelete(c)

SpecConn == Init /\ [][NextConn]_vars

\* ---------------------------------------------------------------- observations

Quiescent == \A m \in Msgs : ~InFlight(m)

\* m is the message that arrived last
Latest(m) == pc[m] # "idle" /\ \A n \in Msgs : n > m => pc[n] = "idle"

\* the invocation of m takes the step
Acts(m) == pc'[m] # pc[m]

RECURSIVE SumVotesCount(_)
SumVotesCount(items) ==
  IF items = {} THEN 0
  ELSE LET i == CHOOSE x \in items : TRUE
       IN  i.votesCount + SumVotesCount(items \ {i})

\* sum of votesCount over the options of the poll
TotalVotesCount(table) == SumVotesCount(QueryOptions(table, PollPK(PollId)))

\* the Vote records of the poll
VoteRecords(table) ==
  {i \in table : i.PK = PollPK(PollId) /\ i.SK[1] = "VOTE"}

VotesCountOf(table, o) == GetItem(table, PollPK(PollId), OptionSK(o)).votesCount

\* ---------------------------------------------------------------- claims

\* C1: once every vote message has been handled, the sum of votesCount over
\* the poll's options equals the number of Vote records of the poll (V2).
C1_TallyMatchesVotes ==
  Quiescent => TotalVotesCount(pollsTable) = Cardinality(VoteRecords(pollsTable))

\* C2: when all vote messages came from the same user, each for a different
\* option of the poll, then once all are handled the user has exactly one Vote
\* record, for one of the requested options, and the option counters sum to
\* the number of Vote records of the poll.
SameUserDifferentOptions ==
  /\ \A m \in Msgs : pc[m] = "done" /\ statusCode[m] = 200
  /\ \A m, n \in Msgs : userId[m] = userId[n]
  /\ \A m, n \in Msgs : m # n => event[m].optionId # event[n].optionId

C2_ConcurrentRevotesResolve ==
  SameUserDifferentOptions =>
    /\ \A m \in Msgs :
         LET mine == {i \in VoteRecords(pollsTable) : i.user = userId[m]}
         IN  /\ Cardinality(mine) = 1
             /\ \A i \in mine : \E n \in Msgs : i.optionId = event[n].optionId
    /\ TotalVotesCount(pollsTable) = Cardinality(VoteRecords(pollsTable))

\* C3: in every state with no vote message in flight, every option's
\* votesCount is at least 0 (V3).
C3_CountsNonNegative ==
  Quiescent => \A o \in OptionIds : VotesCountOf(pollsTable, o) >= 0

\* C4: a revote from option A to option B changes the store in one step: a
\* step of the revote that changes the Polls table applies the decrement of
\* A, the increment of B and the overwrite of the Vote record together.
IsRevote(m) ==
  /\ InFlight(m)
  /\ previousVote[m] # NoItem
  /\ previousVote[m].optionId # event[m].optionId

C4_RevoteAtomic ==
  [][\A m \in Msgs :
       (IsRevote(m) /\ Acts(m) /\ pollsTable' # pollsTable) =>
         pollsTable' =
           PersistVote(IncrementNew(DecrementPrevious(pollsTable, m), m), m)]_vars

\* C5: in every reachable state each user has at most one Vote record of the
\* poll (V1): a revote overwrites the record.
C5_OneVotePerUser ==
  \A u \in Users :
    Cardinality({i \in VoteRecords(pollsTable) : i.user = u}) <= 1

\* a revote has written its Vote record over the previous one
C5_Witness ==
  \E m \in Msgs :
    /\ pc[m] = "query"
    /\ previousVote[m] # NoItem
    /\ previousVote[m].optionId # event[m].optionId
    /\ GetItem(pollsTable, PollPK(PollId), VoteSK(userId[m])).optionId
         = event[m].optionId

\* C6: no step of a vote message whose optionId is not an option of the poll
\* changes the Polls table or sends anything, and the message ends in an
\* error.
C6_InvalidOptionChangesNothing ==
  [][\A m \in Msgs :
       (Acts(m) /\ event'[m].optionId \in BadOptionIds) =>
         /\ pollsTable' = pollsTable
         /\ posted' = {}
         /\ pc'[m] = "done" => statusCode'[m] = 500]_vars

\* C7: when a store call of the ledger steps (2 to 5) of a vote fails, the
\* Polls table is as it was when the message arrived.
LedgerCalls == {"getPrev", "dec", "inc", "put"}

C7_FailedVoteHasNoEffect ==
  [][\A m \in Msgs :
       (pc[m] \in LedgerCalls /\ pc'[m] = "done" /\ statusCode'[m] = 500) =>
         pollsTable' = before]_vars

\* C8: when a user who holds a vote for option X votes for X again, with no
\* other vote in flight, every option's votesCount after the call equals its
\* value before the call.
IsResubmission(m) ==
  LET held == GetItem(before, PollPK(PollId), VoteSK(userId[m]))
  IN  /\ event[m].pollId = PollId
      /\ held # NoItem
      /\ held.optionId = event[m].optionId

C8_ResubmissionKeepsCounts ==
  \A m \in Msgs :
    (Latest(m) /\ pc[m] = "done" /\ IsResubmission(m)) =>
      \A o \in OptionIds : VotesCountOf(pollsTable, o) = VotesCountOf(before, o)

\* a resubmission has been handled to the end
C8_Witness ==
  \E m \in Msgs :
    Latest(m) /\ pc[m] = "done" /\ statusCode[m] = 200 /\ IsResubmission(m)

\* C9: a broadcast posts to every connection of its snapshot, whichever of
\* the sends fail: each connection of the snapshot gets exactly one send of the
\* same payload, and the handler returns 200.
C9_BroadcastIsolation ==
  [][\A m \in Msgs :
       (pc[m] = "scan" /\ pc'[m] = "done") =>
         /\ {s.ConnectionId : s \in posted'} = ScanConnections(connectionsTable)
         /\ Cardinality(posted') = Cardinality(ScanConnections(connectionsTable))
         /\ \A s \in posted' : s.Data = Payload(m)
         /\ statusCode'[m] = 200]_vars

\* one send of a broadcast failed and another was delivered
C9_Witness ==
  /\ \E s \in posted : s.settled = "failed"
  /\ \E s \in posted : s.settled = "delivered"

\* C10: a vote message on a connection id without a Connection record (or
\* with a record without user) ends in an error in its first step, which
\* changes no table and sends nothing.
Unregistered(c) ==
  ~\E i \in connectionsTable : i.PK = c /\ i.user # ""

C10_UnknownConnectionRejected ==
  [][\A m \in Msgs :
       (pc[m] = "idle" /\ Acts(m) /\ Unregistered(event'[m].connectionId)) =>
         /\ pc'[m] = "done"
         /\ statusCode'[m] = 500
         /\ pollsTable' = pollsTable
         /\ connectionsTable' = connectionsTable
         /\ posted' = {}]_vars

\* a message on an unknown connection has been rejected
C10_Witness ==
  \E m \in Msgs :
    /\ pc[m] = "done"
    /\ statusCode[m] = 500
    /\ event[m].connectionId \in UnknownConns

\* C11: a vote message for a pollId no poll exists under fails: no step of
\* it adds or changes an item of that poll's partition (no Vote record, no
\* option counter), none sends anything, it never gets past the increment
\* of step 4, and it ends with statusCode 500.
PartitionOf(table, pollId) == {i \in table : i.PK = PollPK(pollId)}

PollExists(table, pollId) == GetItem(table, PollPK(pollId), PollSK) # NoItem

C11_UnknownPollRejected ==
  [][\A m \in Msgs :
       (Acts(m) /\ ~PollExists(pollsTable, event'[m].pollId)) =>
         /\ PartitionOf(pollsTable', event'[m].pollId)
              = PartitionOf(pollsTable, event'[m].pollId)
         /\ posted' = {}
         /\ pc'[m] \in {"getPrev", "inc", "done"}
         /\ pc'[m] = "done" => statusCode'[m] = 500]_vars

\* a registered user's vote for an unknown poll has been rejected
C11_Witness ==
  \E m \in Msgs :
    /\ pc[m] = "done"
    /\ statusCode[m] = 500
    /\ userId[m] # ""
    /\ event[m].pollId \in UnknownPollIds
    /\ PartitionOf(pollsTable, event[m].pollId) = {}

\* C12: when the disconnect event of a connection id has been handled
\* (its handler returned 200) and no connect handler of that id is running,
\* the Connections table holds no record of that id, however the handling of
\* the id's connect and disconnect events interleaved.
C12_NoRecordAfterDisconnect ==
  \A c \in ConnIds :
    (/\ disconnect[c].pc = "done"
     /\ disconnect[c].statusCode = 200
     /\ connect[c].pc # "put") =>
      ~\E i \in connectionsTable : i.PK = c

\* C13 as stated: the handling of a vote whose Vote record is written always
\* ends with a send to every connection of the Connections table.
C13_CommitAlwaysBroadcasts ==
  [][\A m \in Msgs :
       (pc[m] \in {"query", "scan"} /\ pc'[m] = "done") =>
         {s.ConnectionId : s \in posted'} = {i.PK : i \in connectionsTable}]_vars

\* C13 amended: the handling of a vote whose Vote record is written runs on
\* to its return, and it returns either 200 after a send to every connection
\* of the Connections table, or 500 without any send (the Query of step 6 or
\* the Scan of step 7 was rejected).
C13_CommitBroadcastsUnlessStoreFails ==
  /\ \A m \in Msgs : (pc[m] = "query") ~> (pc[m] = "done")
  /\ [][\A m \in Msgs :
          (pc[m] \in {"query", "scan"} /\ pc'[m] = "done") =>
            \/ /\ statusCode'[m] = 200
               /\ {s.ConnectionId : s \in posted'}
                    = {i.PK : i \in connectionsTable}
            \/ /\ statusCode'[m] = 500
               /\ posted' = {}]_vars

\* a vote was persisted and then broadcast
C13_Witness ==
  \E m \in Msgs :
    /\ pc[m] = "done"
    /\ statusCode[m] = 200
    /\ \E s \in posted : s.Data.user = userId[m]
    /\ GetItem(pollsTable, PollPK(event[m].pollId), VoteSK(userId[m])) # NoItem

\* C14: a failed delivery does not abort the handling of a committed vote:
\* the broadcast step in which sends fail, even all of them, returns 200 and
\* leaves the Polls table, with the vote's counters and Vote record, as it is.
C14_DeliveryFailureKeepsVote ==
  [][\A m \in Msgs :
       (pc[m] = "scan" /\ \E s \in posted' : s.settled = "failed") =>
         /\ pc'[m] = "done"
         /\ statusCode'[m] = 200
         /\ pollsTable' = pollsTable
         /\ GetItem(pollsTable', PollPK(event[m].pollId), VoteSK(userId[m])).optionId
              = event[m].optionId]_vars

\* every send of a broadcast failed
C14_Witness ==
  /\ posted # {}
  /\ \A s \in posted : s.settled = "failed"
  /\ \E m \in Msgs : pc[m] = "done" /\ statusCode[m] = 200

\* C15: after a broadcast in which the send to a connection failed, the
\* Connections table holds no record of that connection (the coordinator
\* prunes it).
C15_FailedConnectionsPruned ==
  [][\A m \in Msgs :
       (pc[m] = "scan" /\ pc'[m] = "done") =>
         \A s \in posted' :
           s.settled = "failed" =>
             ~\E i \in connectionsTable' : i.PK = s.ConnectionId]_vars

\* C16: the outcome of a broadcast tells the deliveries from the failures:
\* the number of outcomes reported as delivered is the number of sends that
\* were delivered, the connections reported as failed are those whose send
\* failed, and the two add up to the size of the snapshot.
C16_BroadcastReportsOutcome ==
  [][\A m \in Msgs :
       (pc[m] = "scan" /\ pc'[m] = "done") =>
         LET outcome == AllSettled(posted')
             delivered == Cardinality({r \in outcome : r.status = "fulfilled"})
             failed == {r.ConnectionId : r \in {x \in outcome : x.status = "rejected"}}
         IN  /\ delivered = Cardinality({s \in posted' : s.settled = "delivered"})
             /\ failed = {s.ConnectionId : s \in {x \in posted' : x.settled = "failed"}}
             /\ delivered + Cardinality(failed)
                  = Cardinality(ScanConnections(connectionsTable))]_vars

\* C17: the handling of a disconnect event returns 200 and leaves the
\* Connections table without a record of the connection id and otherwise
\* unchanged; for an id without a record the table is unchanged, so that
\* handling the event twice leaves the table as handling it once.
C17_DisconnectIdempotent ==
  [][\A c \in ConnIds :
       (disconnect[c].pc = "delete" /\ disconnect'[c].pc = "done") =>
         /\ disconnect'[c].statusCode = 200
         /\ connectionsTable' = {i \in connectionsTable : i.PK # c}
         /\ (~\E i \in connectionsTable : i.PK = c) =>
              connectionsTable' = connectionsTable]_vars

\* the disconnect event of a connection that never connected was handled
C17_Witness ==
  \E c \in UnknownConns :
    /\ connect[c].pc = "idle"
    /\ disconnect[c].pc = "done"
    /\ disconnect[c].statusCode = 200

\* C18: the handling of a connect event returns 200 and leaves exactly one
\* Connection record of the connection id, with the user of that event,
\* whether or not the id had a record; the records of the other ids are
\* unchanged.
C18_RegisterOverwrites ==
  [][\A c \in ConnIds :
       (connect[c].pc = "put" /\ connect'[c].pc = "done") =>
         /\ connect'[c].statusCode = 200
         /\ Cardinality({i \in connectionsTable' : i.PK = c}) = 1
         /\ \A i \in connectionsTable' : i.PK = c => i.user = connect[c].user
         /\ {i \in connectionsTable' : i.PK # c}
              = {i \in connectionsTable : i.PK # c}]_vars

\* c1, registered for alice, was registered again for bob
C18_Witness ==
  /\ connect["c1"].pc = "done"
  /\ connect["c1"].statusCode = 200
  /\ \E i \in connectionsTable : i.PK = "c1" /\ i.user = "bob"

\* C19: the tally read for the broadcast lists every option of the poll
\* exactly once, in increasing order of the option numbers 1..N: its k-th
\* entry is option k, for polls of any number N of options.
C19_TallyInOrdinalOrder ==
  \A m \in Msgs :
    pc[m] = "scan" =>
      /\ Len(options[m])
           = Cardinality(QueryOptions(pollsTable, PollPK(event[m].pollId)))
      /\ \A k \in 1..Len(options[m]) : options[m][k].id = k

\* C20: every invocation of the three handlers that has started reaches its
\* return, with statusCode 200 or 500, whatever store call or send fails and
\* whatever the body of the message is.
C20_HandlersReturnStatus ==
  /\ \A m \in Msgs :
       InFlight(m) ~> (pc[m] = "done" /\ statusCode[m] \in {200, 500})
  /\ \A c \in ConnIds :
       (connect[c].pc = "put") ~>
         (connect[c].pc = "done" /\ connect[c].statusCode \in {200, 500})
  /\ \A c \in ConnIds :
       (disconnect[c].pc = "delete") ~>
         (disconnect[c].pc = "done" /\ disconnect[c].statusCode \in {200, 500})
  /\ [][\A m \in Msgs : pc'[m] = "done" => statusCode'[m] \in {200, 500}]_vars

\* a message with a malformed body and a vote for an option of the poll, one
\* of whose store calls failed, have both returned 500
C20_Witness ==
  /\ \E m \in Msgs :
       pc[m] = "done" /\ statusCode[m] = 500 /\ event[m].pollId = ""
  /\ \E m \in Msgs :
       pc[m] = "done" /\ statusCode[m] = 500 /\ event[m].pollId = PollId
         /\ event[m].optionId \in OptionIds
         /\ event[m].connectionId \in RegisteredConns

\* C21: after a vote message for an option o of the poll was handled alone
\* and returned 200, for a user whose vote was on p # o or who had none:
\* votesCount of o is one more than when the message arrived, votesCount of p
\* is one less, every other option's votesCount is as it was, and the user's
\* Vote record has optionId o.
HeldBefore(m) == GetItem(before, PollPK(PollId), VoteSK(userId[m]))

\* the option numbers of the poll
OptionsOf(table) ==
  {Number(i.SK[2]) : i \in QueryOptions(table, PollPK(PollId))}

IsNewChoice(m) ==
  /\ Latest(m) /\ pc[m] = "done" /\ statusCode[m] = 200
  /\ event[m].pollId = PollId
  /\ event[m].optionId \in OptionsOf(before)
  /\ HeldBefore(m) # NoItem => HeldBefore(m).optionId # event[m].optionId

C21_SingleVoteEffect ==
  \A m \in Msgs :
    IsNewChoice(m) =>
      /\ \A o \in OptionsOf(before) :
           VotesCountOf(pollsTable, o) =
             VotesCountOf(before, o)
               + (IF o = event[m].optionId THEN 1 ELSE 0)
               - (IF HeldBefore(m) # NoItem /\ o = HeldBefore(m).optionId
                    THEN 1 ELSE 0)
      /\ GetItem(pollsTable, PollPK(PollId), VoteSK(userId[m])).optionId
           = event[m].optionId

\* a user who held a vote for another option of a poll of three or more
\* options has voted, alone
C21_Witness ==
  \E m \in Msgs :
    /\ IsNewChoice(m)
    /\ HeldBefore(m) # NoItem
    /\ Cardinality(OptionsOf(before)) >= 3

\* C22: a step of a vote message that arrived on connection c adds, replaces
\* or removes no Vote record but the one keyed by the user of c's Connection
\* record, under the poll named in the message.
AllVoteRecords(table) == {i \in table : i.SK[1] = "VOTE"}

RegisteredUsers(c) == {i.user : i \in {x \in connectionsTable : x.PK = c}}

C22_VoteAttributedToConnection ==
  [][\A m \in Msgs :
       Acts(m) =>
         \A i \in (AllVoteRecords(pollsTable') \ AllVoteRecords(pollsTable))
                 \cup (AllVoteRecords(pollsTable) \ AllVoteRecords(pollsTable')) :
           /\ i.user \in RegisteredUsers(event'[m].connectionId)
           /\ i.SK = VoteSK(i.user)
           /\ i.PK = PollPK(event'[m].pollId)]_vars

\* a message on bob's connection has written bob's Vote record next to
\* alice's
C22_Witness ==
  /\ \E m \in Msgs :
       pc[m] = "done" /\ statusCode[m] = 200 /\ event[m].connectionId = "c2"
  /\ GetItem(pollsTable, PollPK(PollId), VoteSK("bob")) # NoItem
  /\ GetItem(pollsTable, PollPK(PollId), VoteSK("alice")) # NoItem

\* C23: the payload sent for a vote handled alone names the poll of the
\* message, carries the tally as the Polls table holds it at the broadcast,
\* in which the user's Vote record is the one of this vote, the user of the
\* vote, and the createdAt stored in that Vote record.
C23_PayloadIsSnapshotAfterVote ==
  [][\A m \in Msgs :
       (pc[m] = "scan" /\ pc'[m] = "done" /\ statusCode'[m] = 200) =>
         LET stored == GetItem(pollsTable, PollPK(event[m].pollId),
                               VoteSK(userId[m]))
         IN  /\ stored # NoItem
             /\ stored.optionId = event[m].optionId
             /\ \A s \in posted' :
                  /\ s.Data.pollId = event[m].pollId
                  /\ s.Data.options = Tally(pollsTable, event[m].pollId)
                  /\ s.Data.user = stored.user
                  /\ s.Data.createdAt = stored.createdAt]_vars

\* a payload whose tally counts the vote it announces has been sent
C23_Witness ==
  \E s \in posted :
    /\ s.Data.user = "bob"
    /\ \E k \in 1..Len(s.Data.options) : s.Data.options[k].votesCount >= 1

\* C24: a vote message whose optionId is the optionId of the user's Vote
\* record writes nothing: no step of it changes the Polls table, so the
\* option counters and the Vote record, createdAt included, stay as they were
\* before the call.
C24_ResubmissionWritesNothing ==
  [][\A m \in Msgs :
       (/\ InFlight(m)
        /\ previousVote[m] # NoItem
        /\ previousVote[m].optionId = event[m].optionId
        /\ Acts(m)) =>
         pollsTable' = pollsTable]_vars

\* C25: when the messages of each user are handled one at a time (those of
\* different users overlap freely), every votesCount is at least 0 in every
\* state, and in every state with no message in flight each option's
\* votesCount is the number of Vote records of the poll with that optionId.
C25_PerOptionConsistency ==
  /\ \A o \in OptionIds : VotesCountOf(pollsTable, o) >= 0
  /\ Quiescent =>
       \A o \in OptionIds :
         VotesCountOf(pollsTable, o)
           = Cardinality({i \in VoteRecords(pollsTable) : i.optionId = o})

\* a revote of one user and a vote of another are in flight together, both
\* past their first write
C25_Witness ==
  \E m, n \in Msgs :
    /\ userId[m] # userId[n]
    /\ pc[m] \in {"inc", "put"} /\ previousVote[m] # NoItem
    /\ previousVote[m].optionId # event[m].optionId
    /\ pc[n] = "put"

\* C26: when the owner's deletion of the poll has returned 200 and no vote
\* message is in flight, no item (poll, option, Vote record) is left under the
\* poll's partition, however the deletion and the votes interleaved.
C26_DeleteLeavesNothing ==
  (deletePoll.pc = "done" /\ deletePoll.statusCode = 200 /\ Quiescent) =>
    PartitionOf(pollsTable, PollId) = {}

\* C27: every overwrite of a user's Vote record stores a createdAt that is
\* at least the createdAt it replaces, and the optionId and createdAt of the
\* record written are those of the one message that writes it.
C27_CreatedAtNeverDecreases ==
  [][\A u \in Users :
       LET old == GetItem(pollsTable, PollPK(PollId), VoteSK(u))
           new == GetItem(pollsTable', PollPK(PollId), VoteSK(u))
       IN  (old # NoItem /\ new # NoItem /\ new # old) =>
             /\ new.createdAt >= old.createdAt
             /\ \E m \in Msgs :
                  /\ Acts(m)
                  /\ new.optionId = event[m].optionId
                  /\ new.createdAt = createdAt[m]]_vars

\* C28: a step of a vote message of user u for poll p, whether the message
\* succeeds or fails, changes no Connection record, no item of another
\* poll, no Vote record of another user, not the poll item of p, and of the
\* option items of p nothing but votesCount (no option is added or removed).
OtherPolls(table, pollId) == {i \in table : i.PK # PollPK(pollId)}

OthersVotes(table, user) == {i \in AllVoteRecords(table) : i.user # user}

C28_VoteFrame ==
  [][\A m \in Msgs :
       Acts(m) =>
         LET p == event'[m].pollId
         IN  /\ connectionsTable' = connectionsTable
             /\ OtherPolls(pollsTable', p) = OtherPolls(pollsTable, p)
             /\ OthersVotes(pollsTable', userId'[m])
                  = OthersVotes(pollsTable, userId'[m])
             /\ GetItem(pollsTable', PollPK(p), PollSK)
                  = GetItem(pollsTable, PollPK(p), PollSK)
             /\ {i.SK : i \in QueryOptions(pollsTable', PollPK(p))}
                  = {i.SK : i \in QueryOptions(pollsTable, PollPK(p))}
             /\ \A i \in QueryOptions(pollsTable, PollPK(p)) :
                  \E j \in QueryOptions(pollsTable', PollPK(p)) :
                    j = [i EXCEPT !.votesCount = j.votesCount]]_vars

\* bob has voted while alice holds a Vote record, and a vote of his for a
\* number that is no option has failed
C28_Witness ==
  /\ GetItem(pollsTable, PollPK(PollId), VoteSK("alice")) # NoItem
  /\ \E m \in Msgs :
       pc[m] = "done" /\ statusCode[m] = 200 /\ userId[m] = "bob"
  /\ \E m \in Msgs :
       /\ pc[m] = "done" /\ statusCode[m] = 500 /\ userId[m] = "bob"
       /\ event[m].optionId \in BadOptionIds

====
